---- MODULE Spec2Model ----
(***************************************************************************)
(* Publication pipeline of AZUS (standalone_tasks.py and                   *)
(* standalone_uploader.py): the upload tracker, the orchestrator           *)
(* upload_datasets, file-set resolution, and the Zenodo protocol driver    *)
(* upload_to_zenodo, as a state machine.                                   *)
(*                                                                         *)
(* A path is a sequence of chunks; the chunk " " is white space, so that   *)
(* str.strip() of the tracker's loader is computed and not assumed.        *)
(* A file of a dataset directory is named by its file name.                *)
(***************************************************************************)
EXTENDS Integers, Sequences, FiniteSets, TLC

\* ------------------------------------------------------------------------
\*  Bounds of the model
\* ------------------------------------------------------------------------

\* units of work over all processes: every process start and every call of
\* upload_dataset is one unit; when they are used up a running process can
\* only be killed
MaxWork == 5

\* ------------------------------------------------------------------------
\*  The world: archives on disk, configured dataset groups
\* ------------------------------------------------------------------------

WS == " "

\* the longest archive stem, in segments between underscores
MaxSegs == 4

\* The archives ESID_*.zip that discovery can find.  Group 1 is the directory
\* "a", group 2 the directory " b" (a relative directory whose name starts
\* with a blank).  segs is the stem split at "_".
ArchA == [path |-> <<"a/ESID_001/ESID_001.zip">>, name |-> "ESID_001.zip",
          segs |-> <<<<"ESID">>, <<"001">>>>, group |-> 1]
ArchB == [path |-> <<"a/ESID_002/ESID_002.zip">>, name |-> "ESID_002.zip",
          segs |-> <<<<"ESID">>, <<"002">>>>, group |-> 1]
ArchC == [path |-> <<WS, "b/ESID_003/ESID_003.zip">>, name |-> "ESID_003.zip",
          segs |-> <<<<"ESID">>, <<"003">>>>, group |-> 2]

Archives == {ArchA, ArchB, ArchC}

\* the `datasets` list of config.json: one entry per group
Groups == {a.group : a \in Archives}

ArchiveAt(p) == CHOOSE a \in Archives : a.path = p

\* file names of a dataset directory besides the archive
README_HTML == "README.html"
README_MD == "README.md"
DATA_DICT == "data_dict.csv"
GONE == "file_list.csv"

\* project_config["default_required_files"]
DefaultRequiredFiles == <<README_HTML, README_MD, DATA_DICT>>

\* What the directory of one archive holds: an upload manifest (or none),
\* the set of files that exist, and whether the collectors CSV has a row.
FsPlain(a) == [hasManifest |-> FALSE, manifest |-> <<>>, collector |-> TRUE,
               present |-> {README_HTML, README_MD, DATA_DICT, a.name}]
FsManifest(a) == [hasManifest |-> TRUE, collector |-> TRUE,
                  manifest |-> <<a.name, README_MD, DATA_DICT>>,
                  present |-> {README_HTML, README_MD, DATA_DICT, a.name}]
FsBroken(a) == [hasManifest |-> TRUE, collector |-> TRUE,
                manifest |-> <<a.name, GONE>>,
                present |-> {README_HTML, a.name}]
FsBare(a) == [hasManifest |-> FALSE, manifest |-> <<>>, collector |-> TRUE,
              present |-> {a.name}]
FsNoCollector(a) == [hasManifest |-> FALSE, manifest |-> <<>>,
                     collector |-> FALSE,
                     present |-> {README_HTML, README_MD, a.name}]

\* no manifest, and the default-listed data dictionary is missing
FsPartial(a) == [hasManifest |-> FALSE, manifest |-> <<>>, collector |-> TRUE,
                 present |-> {README_HTML, README_MD, a.name}]

FsChoices(a) ==
    {FsPlain(a), FsManifest(a), FsBroken(a), FsBare(a), FsNoCollector(a),
     FsPartial(a)}

World(fa, fb, fc) == (ArchA :> fa) @@ (ArchB :> fb) @@ (ArchC :> fc)

\* the states of the disk the pipeline is run on
Worlds ==
    {World(FsPlain(ArchA), FsManifest(ArchB), FsPlain(ArchC)),
     World(FsBroken(ArchA), FsPlain(ArchB), FsPlain(ArchC)),
     World(FsPlain(ArchA), FsBroken(ArchB), FsManifest(ArchC)),
     World(FsManifest(ArchA), FsBare(ArchB), FsBroken(ArchC)),
     World(FsNoCollector(ArchA), FsNoCollector(ArchB), FsPlain(ArchC)),
     World(FsBare(ArchA), FsNoCollector(ArchB), FsManifest(ArchC)),
     World(FsPartial(ArchA), FsPlain(ArchB), FsBare(ArchC)),
     World(FsNoCollector(ArchA), FsBroken(ArchB), FsPlain(ArchC))}

\* ------------------------------------------------------------------------
\*  Sequences
\* ------------------------------------------------------------------------

Range(s) == {s[i] : i \in 1..Len(s)}

Perms(S) ==
    {s \in [1..Cardinality(S) -> S] : \A i, j \in 1..Cardinality(S) :
                                          i # j => s[i] # s[j]}

\* ------------------------------------------------------------------------
\*  Upload tracker (class UploadTracker)
\* ------------------------------------------------------------------------

RECURSIVE LStrip(_)
LStrip(s) == IF s # <<>> /\ Head(s) = WS THEN LStrip(Tail(s)) ELSE s

RECURSIVE RStrip(_)
RStrip(s) ==
    IF s # <<>> /\ s[Len(s)] = WS THEN RStrip(SubSeq(s, 1, Len(s) - 1)) ELSE s

\* str.strip()
Strip(s) == RStrip(LStrip(s))

\* UploadTracker._load: {line.strip() for line in fh if line.strip()}
UploadTracker_load(file) ==
    {Strip(file[i]) : i \in {j \in 1..Len(file) : Strip(file[j]) # <<>>}}

\* UploadTracker.is_uploaded
is_uploaded(uploaded, file_path) == file_path \in uploaded

\* UploadTracker.mark_uploaded: the in-memory set after the call
mark_uploaded_set(uploaded, file_path) == uploaded \cup {file_path}

\* UploadTracker.mark_uploaded: the backing file after the call (append)
mark_uploaded_file(file, file_path) == Append(file, file_path)

\* ------------------------------------------------------------------------
\*  Dataset identifiers
\* ------------------------------------------------------------------------

\* get_esid_file_pairs: Path(f).stem.split("_")[-1].strip(), for the stem
\* whose segments are segs
pair_esid(segs) == Strip(segs[Len(segs)])

PairEsid(a) == pair_esid(a.segs)

\* find_dataset_files: zip_name.replace("ESID_", "").split("_")[0]
RECURSIVE DropEsidPrefixes(_)
DropEsidPrefixes(segs) ==
    IF Len(segs) > 1 /\ Head(segs) = <<"ESID">> THEN DropEsidPrefixes(Tail(segs))
    ELSE IF Len(segs) > 1
         THEN <<Head(segs)>> \o DropEsidPrefixes(Tail(segs))
         ELSE segs

\* the identifier find_dataset_files puts in ESID_<esid>_to_upload.csv
manifest_esid(segs) == Head(DropEsidPrefixes(segs))

ManifestEsid(a) == manifest_esid(a.segs)

\* ------------------------------------------------------------------------
\*  File-set resolution
\* ------------------------------------------------------------------------

\* a dict filename -> path-or-None, in insertion order: a sequence of
\* [name, found] with distinct names; a later assignment to a key that is
\* already there keeps the key's position
RECURSIVE Locate(_, _, _)
Locate(names, present, seen) ==
    IF names = <<>> THEN <<>>
    ELSE IF Head(names) \in seen THEN Locate(Tail(names), present, seen)
         ELSE <<[name |-> Head(names), found |-> Head(names) \in present]>>
              \o Locate(Tail(names), present, seen \cup {Head(names)})

\* read_upload_manifest that only logs the missing files
read_upload_manifest_Lenient(manifest, present) ==
    [raised |-> "", found_files |-> Locate(manifest, present, {})]

\* read_upload_manifest: the dict, and whether FileNotFoundError is raised
read_upload_manifest(manifest, present) ==
    LET found_files == Locate(manifest, present, {})
        missing == {i \in 1..Len(manifest) : manifest[i] \notin present}
    IN  [raised |-> IF missing # {} THEN "FileNotFoundError" ELSE "",
         found_files |-> found_files]

\* find_dataset_files that treats a missing default file as an error
find_dataset_files_Strict(a, dir) ==
    IF a.name \notin dir.present
          \/ (~dir.hasManifest /\ ~(Range(DefaultRequiredFiles) \subseteq dir.present))
    THEN [raised |-> "FileNotFoundError", found_files |-> <<>>]
    ELSE IF dir.hasManifest
         THEN read_upload_manifest(dir.manifest, dir.present)
         ELSE [raised |-> "",
               found_files |-> Locate(DefaultRequiredFiles, dir.present, {})]

\* find_dataset_files: manifest first, else the default list (never raises
\* for a missing default file)
find_dataset_files(a, dir) ==
    IF a.name \notin dir.present
    THEN [raised |-> "FileNotFoundError", found_files |-> <<>>]
    ELSE IF dir.hasManifest
         THEN read_upload_manifest(dir.manifest, dir.present)
         ELSE [raised |-> "",
               found_files |-> Locate(DefaultRequiredFiles, dir.present, {})]

\* every located file, the dedicated ones too
AdditionalFiles_All(found_files, excluded) ==
    LET names == [i \in 1..Len(found_files) |-> found_files[i].name]
    IN  names

RECURSIVE AdditionalFiles(_, _)
AdditionalFiles(found_files, excluded) ==
    IF found_files = <<>> THEN <<>>
    ELSE LET e == Head(found_files)
             rest == AdditionalFiles(Tail(found_files), excluded)
         IN  IF e.found /\ e.name \notin excluded THEN <<e.name>> \o rest
             ELSE rest

\* create_upload_data, body of the loop for one matched pair: the UploadData
MakeUploadData(a, dir, found_files) ==
    [esid |-> PairEsid(a),
     zip_file |-> a.path,
     zip_name |-> a.name,
     readme_html |-> README_HTML \in dir.present,
     readme_md |-> README_MD \in dir.present,
     additional_files |->
         AdditionalFiles(found_files, {README_HTML, README_MD, a.name})]

NoData == [esid |-> <<>>, zip_file |-> <<>>, zip_name |-> "",
           readme_html |-> FALSE, readme_md |-> FALSE,
           additional_files |-> <<>>]

\* an upload order that starts with the archive
all_files_ZipFirst(d) ==
    <<d.zip_name>> \o (IF d.readme_md THEN <<README_MD>> ELSE <<>>)
        \o d.additional_files

\* UploadData.all_files
all_files(d) ==
    (IF d.readme_md THEN <<README_MD>> ELSE <<>>)
        \o d.additional_files \o <<d.zip_name>>

\* ------------------------------------------------------------------------
\*  State
\* ------------------------------------------------------------------------

VARIABLES
    \* what outlives a process
    trackerFile,      \* .uploaded_files.txt: the lines, in order
    successCsv,       \* rows of the success results CSV
    failureCsv,       \* rows of the failure results CSV
    fs,               \* per archive: its directory and collector row
    cfg,              \* config.json: delete_failures, auto_publish, community_id
    work,             \* units of work used so far
    faults,           \* the failures the environment can inject
    \* upload_datasets
    pc,               \* position of the process ("idle": none running)
    uploaded_files,   \* UploadTracker.uploaded_files
    groupIdx,         \* index of the dataset group being processed
    queue,            \* category_upload_data still to upload
    data,             \* the UploadData being uploaded
    stats,            \* the statistics dictionary
    result,           \* what upload_dataset returned
    \* upload_to_zenodo
    record_id,        \* draft id, 0 for None
    fileIdx,          \* position in all_files
    entries,          \* entries of the last file-initialisation response
    file_entry,       \* the entry chosen for the content PUT and the commit
    draft_response,
    review_response,
    exc,              \* the exception being handled
    \* upload_dataset and upload_to_zenodo: the payloads
    data_collector,   \* first and last recording day of the collector
    config,           \* the DraftConfig
    metadata_json,    \* ESID_<id>_metadata.json
    draft_metadata,   \* the body of the draft-creation request
    \* concurrent pipeline processes on one tracker file
    procs,
    \* the identifiers derived from one archive name
    esids,
    \* observation
    exit_status,      \* how the last process ended
    calls,            \* remote API calls of the current driver invocation
    obs               \* what happened in the current run and invocation

vars == <<trackerFile, successCsv, failureCsv, fs, work, faults, pc, cfg,
          uploaded_files, groupIdx, queue, data, stats, result, record_id,
          fileIdx, entries, file_entry, draft_response, review_response, exc,
          data_collector, config, metadata_json, draft_metadata, procs, esids,
          exit_status, calls, obs>>

persistVars == <<trackerFile, successCsv, failureCsv, fs, work, faults, cfg, procs, esids>>
runVars == <<uploaded_files, groupIdx, queue, data, stats, exit_status>>
driverVars == <<record_id, fileIdx, entries, file_entry, draft_response,
                review_response, exc>>
payloadVars == <<data_collector, config, metadata_json, draft_metadata>>

\* ------------------------------------------------------------------------
\*  Values
\* ------------------------------------------------------------------------

\* a response body: the call it answers, the record id it carries (0: none)
\* and whether it is an empty JSON object; None is the empty NoResp
NoResp == [kind |-> "None", id |-> 0, empty |-> TRUE]
NoErr == [type |-> "None", error_message |-> ""]
NoExc == [cls |-> "None", msg |-> ""]
NoEntry == [key |-> "", links |-> [content |-> <<>>, commit |-> <<>>]]
NoResult == [successful |-> FALSE, api_response |-> NoResp, error |-> NoErr]

\* draft identifiers the remote API assigns
DraftIds == {42}

\* Everything that can go wrong around one upload: an HTTP error status, a
\* connection error, no dated WAV file, README.html deleted after resolution,
\* a metadata construction error, missing credentials, a request body that
\* cannot be built, a create response without id, a local file deleted
\* after resolution, odd `entries` lists, a 2xx answer whose body is {}, and
\* an audit file that cannot be written.
AllFaults == {"HTTPError", "ConnectionError", "dates", "readme", "metadata",
              "credentials", "body", "no_id", "local_file", "entries",
              "empty_body", "audit"}

\* the values of an "all went well" input: TRUE, and FALSE when the
\* environment can inject fault f
May(f) == IF f \in faults THEN BOOLEAN ELSE {TRUE}

\* what one HTTP call can end in: a 2xx, raise_for_status() raising
\* HTTPError, or the transport raising a ConnectionError
Outcomes == {"ok"} \cup (faults \cap {"HTTPError", "ConnectionError"})

\* requests.exceptions: the subclasses of RequestException
RequestExceptionClasses == {"HTTPError", "ConnectionError", "Timeout"}

Entry(key) == [key |-> key,
               links |-> [content |-> <<"content", key>>,
                          commit |-> <<"commit", key>>]]

UNRELATED == "unrelated.bin"

\* the `entries` lists a file-initialisation response for `name` can carry:
\* all slots of the draft, in any order, also without the new one
EntriesChoices(name) ==
    IF "entries" \in faults
    THEN {<<>>,
          <<Entry(name)>>,
          <<Entry(UNRELATED), Entry(name)>>,
          <<Entry(name), Entry(UNRELATED)>>,
          <<Entry(UNRELATED)>>}
    ELSE {<<Entry(name)>>, <<Entry(UNRELATED), Entry(name)>>}

\* the bodies a 2xx answer of `kind` for draft `id` can carry
Bodies(kind, id) ==
    {[kind |-> kind, id |-> id, empty |-> FALSE]}
        \cup (IF "empty_body" \in faults
              THEN {[kind |-> kind, id |-> 0, empty |-> TRUE]} ELSE {})

\* truth value of a response: None and {} are false
Truthy(resp) == ~resp.empty

Call(op, id, file, target, ok) ==
    [op |-> op, id |-> id, file |-> file, target |-> target, ok |-> ok]

\* `entries` before any file-initialisation response has arrived
NoEntries == <<NoEntry>>

\* observation of one call of upload_dataset: the archive, whether
\* README.html was absent, whether building the configuration or the
\* request body raised, the number of calls made when the first step
\* failed (-1: none has), the lengths of the three files at its start,
\* and what became of the two audit files ("none": not attempted,
\* "written", "failed")
NoObsInv == [path |-> <<>>, readmeAbsent |-> FALSE, buildRaised |-> FALSE,
             failAt |-> -1, succLen |-> 0, failLen |-> 0, trackLen |-> 0,
             metaAudit |-> "none", logAudit |-> "none"]

\* ------------------------------------------------------------------------
\*  upload_dataset, phases 1 and 2: the draft configuration
\* ------------------------------------------------------------------------

\* a recording day that is not known (None)
NoDay == ""
Days == {"2024-04-08", "2024-04-09"}

NoCollector == [first_recording_day |-> NoDay, last_recording_day |-> NoDay]

\* a JSON object with no key
EmptyObject == [k \in {} |-> ""]

\* get_recording_dates, the value returned: the earliest and the latest day
\* of the archive's recordings (one day for the second archive of group 1)
recording_dates(zip_file) ==
    IF zip_file = ArchB.path THEN <<"2024-04-08", "2024-04-08">>
    ELSE <<"2024-04-08", "2024-04-09">>

\* Date(date=..., type=DateType(id="collected"), description=...); the date
\* is the sequence of the days joined by "/"
Date(days, description) ==
    [date |-> days, type |-> "collected", description |-> description]

\* get_draft_config, lines 934-958: the date entries
build_dates(first_day, last_day) ==
    IF first_day # NoDay /\ last_day # NoDay
    THEN IF first_day = last_day
         THEN <<Date(<<first_day>>, "Day of recording")>>
         ELSE <<Date(<<first_day, last_day>>, "Recording period")>>
    ELSE IF first_day # NoDay
         THEN <<Date(<<first_day>>, "Day of recording")>>
         ELSE <<>>

\* Metadata(..., dates=dates if dates else None, ...).to_dict(), which
\* drops the fields that are None
Metadata_to_dict(dates) ==
    ("title" :> <<"title">>) @@
    (IF dates # <<>> THEN "dates" :> dates ELSE EmptyObject)

\* get_draft_config, lines 1025-1032
pids(reserve_doi) ==
    IF reserve_doi
    THEN "doi" :> [provider |-> "datacite", identifier |-> ""]
    ELSE EmptyObject

\* get_draft_config, lines 1034-1042: the DraftConfig returned
DraftConfig(collector, community_id, custom_fields, reserve_doi) ==
    [built |-> TRUE,
     metadata |-> Metadata_to_dict(build_dates(collector.first_recording_day,
                                               collector.last_recording_day)),
     community_id |-> community_id,
     custom_fields |-> IF custom_fields THEN "field" :> <<"value">>
                       ELSE EmptyObject,
     pids |-> pids(reserve_doi)]

NoConfig == [built |-> FALSE, metadata |-> EmptyObject, community_id |-> "",
             custom_fields |-> EmptyObject, pids |-> EmptyObject]

\* a JSON document that does not exist
NoJson == [written |-> FALSE, payload |-> EmptyObject]

Json(payload) == [written |-> TRUE, payload |-> payload]

\* the keys both documents take from the DraftConfig
CommonPayload(c) ==
    ("access" :> <<"public", "public">>) @@
    ("files" :> <<"enabled">>) @@
    ("metadata" :> c.metadata) @@
    (IF c.community_id # "" THEN "parent" :> <<c.community_id>>
     ELSE EmptyObject) @@
    (IF c.custom_fields # EmptyObject THEN "custom_fields" :> c.custom_fields
     ELSE EmptyObject)

\* upload_to_zenodo, lines 365-391: the body of POST /records
draft_metadata_body(c) == CommonPayload(c)

\* save_metadata_json, lines 1197-1230: the payload written to
\* ESID_<id>_metadata.json
metadata_payload(c) ==
    ("_azus_note" :> <<"note">>) @@
    ("_generated_at" :> <<"now">>) @@
    CommonPayload(c) @@
    (IF c.pids # EmptyObject THEN "pids" :> c.pids ELSE EmptyObject)

\* get_recording_dates: ValueError when the archive holds no dated WAV file
get_recording_dates(datesOk) ==
    IF datesOk THEN NoExc
    ELSE [cls |-> "ValueError", msg |-> "No valid dates found in WAV file names."]

\* get_draft_config that builds a description without README.html
get_draft_config_NoReadme(readme_html, readmeExists, otherOk) ==
    IF ~otherOk THEN [cls |-> "ValidationError", msg |-> "metadata"] ELSE NoExc

\* get_draft_config: README.html is required; anything else that goes wrong
\* while the metadata is assembled is `otherOk = FALSE`
get_draft_config(readme_html, readmeExists, otherOk) ==
    IF ~readme_html
    THEN [cls |-> "ValueError", msg |-> "README.html path is required."]
    ELSE IF ~readmeExists
         THEN [cls |-> "FileNotFoundError", msg |-> "README.html not found"]
         ELSE IF ~otherOk
              THEN [cls |-> "ValidationError", msg |-> "metadata"]
              ELSE NoExc

\* a save_metadata_json whose write error escapes
save_metadata_json_Raises(writeOk) ==
    IF writeOk THEN NoExc ELSE [cls |-> "OSError", msg |-> "metadata JSON"]

\* save_metadata_json, lines 1232-1241: the exception it lets out when the
\* write succeeds (writeOk) or fails: none, the error is logged
save_metadata_json(writeOk) == NoExc

\* the request log of upload_to_zenodo, lines 399-413: likewise
write_request_log(writeOk) == NoExc

AuditState(writeOk) == IF writeOk THEN "written" ELSE "failed"

\* a failure result whose error has no type and no message
Failure_Untyped(type, msg) ==
    [successful |-> FALSE, api_response |-> NoResp, error |-> NoErr]

Failure(type, msg) ==
    [successful |-> FALSE, api_response |-> NoResp,
     error |-> [type |-> type, error_message |-> msg]]

Success(resp) == [successful |-> TRUE, api_response |-> resp, error |-> NoErr]

\* upload_dataset, lines 1289-1349: build the configuration, then write the
\* metadata audit JSON (whose failure is swallowed)
BuildConfig ==
    /\ pc = "build"
    /\ \E datesOk \in May("dates"), readmeExists \in May("readme"),
          otherOk \in May("metadata"), metaOk \in May("audit") :
         LET e1 == get_recording_dates(datesOk)
             e2 == get_draft_config(data.readme_html, readmeExists, otherOk)
             built == IF e1 # NoExc THEN e1 ELSE e2
             e == IF built # NoExc THEN built ELSE save_metadata_json(metaOk)
             absent == ~data.readme_html \/ ~readmeExists
             days == recording_dates(data.zip_file)
             collector == IF e1 # NoExc THEN data_collector
                          ELSE [first_recording_day |-> days[1],
                                last_recording_day |-> days[2]]
             conf == DraftConfig(collector, cfg.community_id,
                                 cfg.custom_fields, cfg.reserve_doi)
         IN  /\ data_collector' = collector
             /\ config' = IF built # NoExc THEN config ELSE conf
             /\ metadata_json' = IF built = NoExc /\ metaOk
                                 THEN Json(metadata_payload(conf))
                                 ELSE metadata_json
             /\ obs' = [obs EXCEPT !.inv.readmeAbsent = absent,
                                   !.inv.buildRaised = (built # NoExc),
                                   !.inv.metaAudit =
                                       IF built # NoExc THEN "none"
                                       ELSE AuditState(metaOk)]
             /\ IF e # NoExc
                THEN /\ result' = Failure(e.cls, e.msg)
                     /\ pc' = "route"
                ELSE /\ result' = result
                     /\ pc' = "start"
    /\ UNCHANGED <<persistVars, runVars, driverVars, draft_metadata, calls>>

\* ------------------------------------------------------------------------
\*  upload_to_zenodo
\* ------------------------------------------------------------------------

\* a classification by the exception's own type name only
ErrorType_Name(cls) == cls

\* the except clause's classification, lines 474-486
ErrorType(cls) ==
    IF cls = "HTTPError" THEN "HTTPError"
    ELSE IF cls \in RequestExceptionClasses THEN "RequestException"
         ELSE cls

ErrorMsg(e) ==
    IF e.cls = "HTTPError" THEN "HTTP error"
    ELSE IF e.cls \in RequestExceptionClasses THEN "Connection error"
         ELSE e.msg

\* an exception raised inside the try block, after the calls `cs`
Raise(cls, msg, cs) ==
    /\ pc' = "except"
    /\ result' = result
    /\ exc' = [cls |-> cls, msg |-> msg]
    /\ calls' = cs
    /\ obs' = [obs EXCEPT !.inv.failAt = Len(cs)]

\* a file loop that is followed by the publication, never by the review
AfterFiles_NoReview == IF cfg.auto_publish THEN "publish" ELSE "return"

\* the step that follows the file loop, lines 441-453
AfterFiles ==
    IF cfg.community_id # "" THEN "review_create"
    ELSE IF cfg.auto_publish THEN "publish" ELSE "return"

\* a review submission that is always followed by the publication
AfterReview_Publish == "publish"

\* the step that follows the review submission, line 453
AfterReview == IF cfg.auto_publish THEN "publish" ELSE "return"

\* lines 463-470: what is reported when the record is left a draft
DraftResult(review, draft) ==
    Success(IF Truthy(review) THEN review ELSE draft)

\* go on to step `next`, or return the draft result when nothing is left
Proceed(next, review, draft) ==
    IF next = "return"
    THEN /\ pc' = "route"
         /\ result' = DraftResult(review, draft)
    ELSE /\ pc' = next
         /\ result' = result

\* lines 358-391: the credentials (outside the try block: their ValueError
\* is caught by upload_dataset) and the request body
StartUpload ==
    /\ pc = "start"
    /\ \E credsOk \in May("credentials"), bodyOk \in May("body") :
         /\ IF ~credsOk
            THEN /\ result' = Failure("ValueError",
                                      "INVENIO_RDM_ACCESS_TOKEN not set")
                 /\ pc' = "route"
                 /\ UNCHANGED <<exc, calls, obs>>
            ELSE IF ~bodyOk
                 THEN /\ pc' = "except"
                      /\ exc' = [cls |-> "AttributeError", msg |-> "record_access"]
                      /\ obs' = [obs EXCEPT !.inv.failAt = Len(calls),
                                            !.inv.buildRaised = TRUE]
                      /\ UNCHANGED <<result, calls>>
                 ELSE /\ pc' = "create"
                      /\ UNCHANGED <<result, exc, calls, obs>>
         /\ draft_metadata' = IF credsOk /\ bodyOk
                              THEN Json(draft_metadata_body(config))
                              ELSE draft_metadata
    /\ UNCHANGED <<persistVars, runVars, data_collector, config, metadata_json,
                   record_id, fileIdx, entries, file_entry, draft_response,
                   review_response>>

\* lines 393-415: POST /records, the draft id, the request log (whose
\* failure is swallowed)
CreateDraft ==
    /\ pc = "create"
    /\ \E out \in Outcomes, logOk \in May("audit"),
          id \in DraftIds \cup (IF "no_id" \in faults THEN {0} ELSE {}) :
         LET cs == Append(calls, Call("create", id, "", <<"records">>, out = "ok"))
             logged == write_request_log(logOk)
         IN  IF out # "ok"
             THEN /\ Raise(out, "", Append(calls,
                               Call("create", 0, "", <<"records">>, FALSE)))
                  /\ UNCHANGED <<record_id, draft_response, fileIdx>>
             ELSE /\ draft_response' = [kind |-> "draft", id |-> id, empty |-> FALSE]
                  /\ record_id' = id
                  /\ IF id = 0
                     THEN /\ Raise("ValueError",
                                   "No record ID returned from draft creation", cs)
                          /\ UNCHANGED fileIdx
                     ELSE IF logged # NoExc
                          THEN /\ Raise(logged.cls, logged.msg, cs)
                               /\ UNCHANGED fileIdx
                          ELSE /\ pc' = "init"
                               /\ fileIdx' = 1
                               /\ calls' = cs
                               /\ obs' = [obs EXCEPT !.inv.logAudit =
                                                        AuditState(logOk)]
                               /\ UNCHANGED <<exc, result>>
    /\ UNCHANGED <<persistVars, runVars, payloadVars, entries, file_entry,
                   review_response>>

\* upload_file_to_draft that takes entries[0]
MatchEntry_First(es, name) == IF es = <<>> THEN NoEntry ELSE Head(es)

\* upload_file_to_draft, lines 159-161: the entry whose key is the file name
RECURSIVE MatchEntry(_, _)
MatchEntry(es, name) ==
    IF es = <<>> THEN NoEntry
    ELSE IF Head(es).key = name THEN Head(es) ELSE MatchEntry(Tail(es), name)

\* lines 419-429 and upload_file_to_draft lines 140-166: the local file, the
\* initialisation POST and the choice of the entry
UploadFileInit ==
    /\ pc = "init"
    /\ LET name == all_files(data)[fileIdx]
       IN  \E localOk \in May("local_file"), out \in Outcomes,
              es \in EntriesChoices(name) :
             LET cs == Append(calls, Call("init", record_id, name,
                                          <<"files">>, out = "ok"))
                 e == MatchEntry(es, name)
             IN  IF ~localOk
                 THEN /\ Raise("FileNotFoundError", "File not found", calls)
                      /\ UNCHANGED <<entries, file_entry>>
                 ELSE IF out # "ok"
                      THEN /\ Raise(out, "", cs)
                           /\ UNCHANGED <<entries, file_entry>>
                      ELSE IF es = <<>>
                           THEN /\ Raise("ValueError",
                                         "Failed to initialize upload", cs)
                                /\ entries' = es
                                /\ UNCHANGED file_entry
                           ELSE IF e = NoEntry
                                THEN /\ Raise("ValueError",
                                              "No matching entry", cs)
                                     /\ entries' = es
                                     /\ UNCHANGED file_entry
                                ELSE /\ entries' = es
                                     /\ file_entry' = e
                                     /\ pc' = "put"
                                     /\ calls' = cs
                                     /\ UNCHANGED <<exc, obs, result>>
    /\ UNCHANGED <<persistVars, runVars, payloadVars, record_id, fileIdx,
                   draft_response, review_response>>

\* a content PUT whose failure is not looked at: the commit follows anyway
UploadFilePut_Blind ==
    /\ pc = "put"
    /\ \E out \in Outcomes :
         /\ calls' = Append(calls, Call("put", record_id,
                                        all_files(data)[fileIdx],
                                        file_entry.links.content, out = "ok"))
         /\ pc' = "commit"
         /\ UNCHANGED <<exc, obs, result>>
    /\ UNCHANGED <<persistVars, runVars, payloadVars, record_id, fileIdx, entries,
                   file_entry, draft_response, review_response>>

\* upload_file_to_draft, lines 167-171: PUT the content
UploadFilePut ==
    /\ pc = "put"
    /\ \E out \in Outcomes :
         LET cs == Append(calls, Call("put", record_id, all_files(data)[fileIdx],
                                      file_entry.links.content, out = "ok"))
         IN  IF out # "ok"
             THEN Raise(out, "", cs)
             ELSE /\ pc' = "commit"
                  /\ calls' = cs
                  /\ UNCHANGED <<exc, obs, result>>
    /\ UNCHANGED <<persistVars, runVars, payloadVars, record_id, fileIdx, entries,
                   file_entry, draft_response, review_response>>

\* upload_file_to_draft, lines 173-179, and the loop's next round
UploadFileCommit ==
    /\ pc = "commit"
    /\ \E out \in Outcomes :
         LET cs == Append(calls, Call("commit", record_id,
                                      all_files(data)[fileIdx],
                                      file_entry.links.commit, out = "ok"))
         IN  IF out # "ok"
             THEN /\ Raise(out, "", cs)
                  /\ UNCHANGED <<fileIdx, entries, file_entry>>
             ELSE /\ calls' = cs
                  /\ entries' = NoEntries
                  /\ file_entry' = NoEntry
                  /\ UNCHANGED <<exc, obs>>
                  /\ IF fileIdx < Len(all_files(data))
                     THEN /\ fileIdx' = fileIdx + 1
                          /\ pc' = "init"
                          /\ result' = result
                     ELSE /\ fileIdx' = fileIdx
                          /\ Proceed(AfterFiles, review_response, draft_response)
    /\ UNCHANGED <<persistVars, runVars, payloadVars, record_id, draft_response,
                   review_response>>

\* _create_community_review_request, lines 247-258: PUT /draft/review
ReviewCreate ==
    /\ pc = "review_create"
    /\ \E out \in Outcomes :
         LET cs == Append(calls, Call("review_create", record_id, "",
                                      <<"review">>, out = "ok"))
         IN  IF out # "ok"
             THEN Raise(out, "", cs)
             ELSE /\ pc' = "review_submit"
                  /\ calls' = cs
                  /\ UNCHANGED <<exc, obs, result>>
    /\ UNCHANGED <<persistVars, runVars, payloadVars, record_id, fileIdx, entries,
                   file_entry, draft_response, review_response>>

\* submit_to_community_review, lines 298-304: POST submit-review
ReviewSubmit ==
    /\ pc = "review_submit"
    /\ \E out \in Outcomes, resp \in Bodies("review", record_id) :
         LET cs == Append(calls, Call("review_submit", record_id, "",
                                      <<"submit-review">>, out = "ok"))
         IN  IF out # "ok"
             THEN /\ Raise(out, "", cs)
                  /\ UNCHANGED review_response
             ELSE /\ review_response' = resp
                  /\ calls' = cs
                  /\ UNCHANGED <<exc, obs>>
                  /\ Proceed(AfterReview, resp, draft_response)
    /\ UNCHANGED <<persistVars, runVars, payloadVars, record_id, fileIdx, entries,
                   file_entry, draft_response>>

\* a publication that is tried a second time when the first call fails
Publish_Retry ==
    /\ pc = "publish"
    /\ \E out \in Outcomes, resp \in Bodies("publish", record_id) :
         LET cs == Append(calls, Call("publish", record_id, "",
                                      <<"publish">>, out = "ok"))
             first == \A i \in 1..Len(calls) : calls[i].op # "publish"
         IN  IF out # "ok"
             THEN IF first
                  THEN /\ calls' = cs
                       /\ UNCHANGED <<pc, result, exc, obs>>
                  ELSE Raise(out, "", cs)
             ELSE /\ result' = Success(resp)
                  /\ pc' = "route"
                  /\ calls' = cs
                  /\ UNCHANGED <<exc, obs>>
    /\ UNCHANGED <<persistVars, runVars, payloadVars, record_id, fileIdx, entries,
                   file_entry, draft_response, review_response>>

\* publish_draft and lines 453-461
Publish ==
    /\ pc = "publish"
    /\ \E out \in Outcomes, resp \in Bodies("publish", record_id) :
         LET cs == Append(calls, Call("publish", record_id, "",
                                      <<"publish">>, out = "ok"))
         IN  IF out # "ok"
             THEN Raise(out, "", cs)
             ELSE /\ result' = Success(resp)
                  /\ pc' = "route"
                  /\ calls' = cs
                  /\ UNCHANGED <<exc, obs>>
    /\ UNCHANGED <<persistVars, runVars, payloadVars, record_id, fileIdx, entries,
                   file_entry, draft_response, review_response>>

\* _cleanup_failed_draft that does not look at delete_on_failure
cleanup_failed_draft_Always(cs, id, delete_on_failure, delOk) ==
    IF id = 0 THEN cs
    ELSE Append(cs, [op |-> "delete", id |-> id, file |-> "",
                     target |-> <<"draft">>, ok |-> delOk])

\* _cleanup_failed_draft: the calls it adds; a failing delete is swallowed
cleanup_failed_draft(cs, id, delete_on_failure, delOk) ==
    IF ~delete_on_failure \/ id = 0 THEN cs
    ELSE Append(cs, Call("delete", id, "", <<"draft">>, delOk))

\* a result that reports the failure of the cleanup
FailureResult_Cleanup(e, deleted) ==
    IF deleted = "failed" THEN Failure("HTTPError", "Failed to delete draft")
    ELSE Failure(ErrorType(e.cls), ErrorMsg(e))

\* lines 488-496: the result for exception e, returned after the cleanup,
\* whose delete call `deleted` was "ok", "failed" or "none" (not attempted)
FailureResult(e, deleted) == Failure(ErrorType(e.cls), ErrorMsg(e))

\* what became of the delete call of _cleanup_failed_draft
Deleted(id, delete_on_failure, delOk) ==
    IF ~delete_on_failure \/ id = 0 THEN "none"
    ELSE IF delOk THEN "ok" ELSE "failed"

\* an except clause that logs the error and goes on with the protocol
HandleFailure_GoOn ==
    /\ pc = "except"
    /\ IF record_id = 0
       THEN /\ result' = Failure(ErrorType(exc.cls), ErrorMsg(exc))
            /\ pc' = "route"
       ELSE /\ result' = result
            /\ pc' = "publish"
    /\ UNCHANGED <<persistVars, runVars, driverVars, payloadVars, obs, calls>>

\* the except clause, lines 472-496
HandleFailure ==
    /\ pc = "except"
    /\ \E delOk \in BOOLEAN :
         /\ calls' = cleanup_failed_draft(calls, record_id,
                                          cfg.delete_failures, delOk)
         /\ result' = FailureResult(exc, Deleted(record_id,
                                                 cfg.delete_failures, delOk))
    /\ pc' = "route"
    /\ UNCHANGED <<persistVars, runVars, driverVars, payloadVars, obs>>

\* ------------------------------------------------------------------------
\*  Result persistence
\* ------------------------------------------------------------------------

\* a PersistedResult row: esid, id, error_type, error_message
Row(esid, id, type, msg) ==
    [esid |-> esid, id |-> id, error_type |-> type, error_message |-> msg]

\* save_result, lines 1148-1158: the row it appends
save_result_row(esid, success, api_response, error) ==
    Row(esid,
        IF Truthy(api_response) THEN api_response.id ELSE 0,
        IF success THEN "None"
        ELSE IF error.type = "None" THEN "Unknown" ELSE error.type,
        IF success THEN ""
        ELSE IF error.error_message = "" THEN "Upload failed"
             ELSE error.error_message)

\* save_result that writes every row to the success CSV
results_file_Always(success) == "success"

\* save_result, line 1148: the CSV the row goes to
results_file(success) == IF success THEN "success" ELSE "failure"

\* save_result_csv: the row is appended to the named CSV
save_result_csv(file, row) ==
    /\ successCsv' = IF file = "success" THEN Append(successCsv, row)
                     ELSE successCsv
    /\ failureCsv' = IF file = "failure" THEN Append(failureCsv, row)
                     ELSE failureCsv

\* ------------------------------------------------------------------------
\*  get_upload_data
\* ------------------------------------------------------------------------

RECURSIVE NotUploaded(_, _)
\* line 1434: [f for f in dir_files if not tracker.is_uploaded(f)]
NotUploaded(files, uploaded) ==
    IF files = <<>> THEN <<>>
    ELSE IF is_uploaded(uploaded, Head(files).path)
         THEN NotUploaded(Tail(files), uploaded)
         ELSE <<Head(files)>> \o NotUploaded(Tail(files), uploaded)

RECURSIVE create_upload_data(_, _)
\* create_upload_data: the loop over the pairs; find_dataset_files raising
\* ends the loop and the function (there is no try around it)
create_upload_data(pairs, world) ==
    IF pairs = <<>>
    THEN [raised |-> "", upload_data |-> <<>>, unmatched_ids |-> <<>>]
    ELSE LET a == Head(pairs)
             dir == world[a]
             found == find_dataset_files(a, dir)
             rest == create_upload_data(Tail(pairs), world)
             abort == [raised |-> found.raised, upload_data |-> <<>>,
                       unmatched_ids |-> <<>>]
         IN  IF ~dir.collector
             THEN IF rest.raised # "" THEN rest
                  ELSE [rest EXCEPT !.unmatched_ids = <<PairEsid(a)>> \o @]
             ELSE IF found.raised # "" THEN abort
                  ELSE IF rest.raised # "" THEN rest
                       ELSE [rest EXCEPT !.upload_data =
                               <<MakeUploadData(a, dir, found.found_files)>> \o @]

\* get_upload_data, lines 1432-1449, for the archives found in `order`
get_upload_data(order, uploaded, world) ==
    LET dir_files == NotUploaded(order, uploaded)
    IN  IF dir_files = <<>>
        THEN [raised |-> "", upload_data |-> <<>>, unmatched_ids |-> <<>>]
        ELSE create_upload_data(dir_files, world)

RECURSIVE UnmatchedRows(_)
\* lines 1451-1459: one failure row per unmatched identifier
UnmatchedRows(ids) ==
    IF ids = <<>> THEN <<>>
    ELSE <<Row(Head(ids), 0, "None", "Unable to find data collector info")>>
         \o UnmatchedRows(Tail(ids))

\* ------------------------------------------------------------------------
\*  upload_datasets
\* ------------------------------------------------------------------------

\* the `datasets` lists of config.json: the directory of each entry; two
\* entries can name the same directory
DatasetLists == {<<1, 2>>, <<1, 1>>}

Cfgs == [delete_failures : BOOLEAN, auto_publish : BOOLEAN,
         community_id : {"", "eclipse"}, datasets : DatasetLists,
         reserve_doi : BOOLEAN, custom_fields : BOOLEAN]

\* the runs of whole pipelines keep DOI reservation and custom fields off
PipelineCfgs == {c \in Cfgs : ~c.reserve_doi /\ ~c.custom_fields}

\* the failures injected while whole pipeline runs are explored
PipelineFaults == {"HTTPError", "dates"}

ZeroStats == [total_processed |-> 0, successful |-> 0, failed |-> 0,
              skipped |-> 0]

\* observation of one run: the tracker lines and the lengths of the two CSVs
\* at its start, the archives handed to upload_dataset (as a set and in
\* order), those a remote call was issued for, those whose manifest names
\* a missing file, and those an UploadData was returned for
NoObs == [markedAtStart |-> {}, invoked |-> {}, handed |-> <<>>,
          apiDone |-> {}, missing |-> {}, resolved |-> {},
          runSuccLen |-> 0, runFailLen |-> 0, inv |-> NoObsInv]

\* the archives whose manifest names a file that is not in the directory
ManifestMissing(as, world) ==
    {a.path : a \in {b \in as : /\ world[b].hasManifest
                                /\ \E i \in 1..Len(world[b].manifest) :
                                     world[b].manifest[i] \notin world[b].present}}

\* no archive name has been looked at
NoEsids == [segs |-> <<>>, pair |-> <<>>, manifest |-> <<>>]

\* no concurrent process has started
NoProc == [pc |-> "off", uploaded_files |-> {}, groupIdx |-> 0,
           queue |-> <<>>, data |-> NoData, successful |-> FALSE,
           loaded |-> {}, handed |-> <<>>, created |-> <<>>,
           raised |-> FALSE]
Procs == {1, 2}
NoProcs == [p \in Procs |-> NoProc]

DriverReset ==
    /\ record_id' = 0
    /\ fileIdx' = 0
    /\ entries' = NoEntries
    /\ file_entry' = NoEntry
    /\ draft_response' = NoResp
    /\ review_response' = NoResp
    /\ exc' = NoExc
    /\ data_collector' = NoCollector
    /\ config' = NoConfig
    /\ metadata_json' = NoJson
    /\ draft_metadata' = NoJson

\* a process starts: main calls upload_datasets, which builds the tracker
\* (lines 1501-1504)
StartRun ==
    /\ pc = "idle"
    /\ work < MaxWork
    /\ work' = work + 1
    /\ uploaded_files' = UploadTracker_load(trackerFile)
    /\ stats' = ZeroStats
    /\ groupIdx' = 1
    /\ queue' = <<>>
    /\ data' = NoData
    /\ result' = NoResult
    /\ calls' = <<>>
    /\ exit_status' = "running"
    /\ obs' = [NoObs EXCEPT !.markedAtStart = Range(trackerFile),
                            !.runSuccLen = Len(successCsv),
                            !.runFailLen = Len(failureCsv)]
    /\ pc' = "group"
    /\ DriverReset
    /\ UNCHANGED <<trackerFile, successCsv, failureCsv, fs, faults, cfg, procs, esids>>

\* the process ends with exit status `status`; its memory is gone
EndRun(status) ==
    /\ pc' = "idle"
    /\ exit_status' = status
    /\ queue' = <<>>
    /\ data' = NoData
    /\ result' = NoResult
    /\ DriverReset

\* lines 1507-1533: one round of the loop over the dataset groups, up to
\* the list category_upload_data; past the last group, the return of the
\* statistics and main's exit status (line 1724)
ProcessGroup ==
    /\ pc = "group"
    /\ IF groupIdx > Len(cfg.datasets)
       THEN /\ EndRun(IF stats.failed = 0 THEN "0" ELSE "1")
            /\ UNCHANGED <<persistVars, uploaded_files, groupIdx, stats,
                           calls, obs>>
       ELSE \E order \in Perms({a \in Archives :
                                    a.group = cfg.datasets[groupIdx]}) :
              LET r == get_upload_data(order, uploaded_files, fs)
                  seen == [obs EXCEPT
                             !.missing = @ \cup ManifestMissing(
                                 {order[i] : i \in 1..Len(order)}, fs),
                             !.resolved = @ \cup
                                 {r.upload_data[i].zip_file :
                                     i \in 1..Len(r.upload_data)}]
              IN  IF r.raised # ""
                  THEN \* the exception reaches main: "Fatal error", exit 1
                       /\ EndRun("1")
                       /\ obs' = seen
                       /\ UNCHANGED <<persistVars, uploaded_files,
                                      groupIdx, stats, calls>>
                  ELSE /\ failureCsv' = failureCsv \o UnmatchedRows(r.unmatched_ids)
                       /\ queue' = r.upload_data
                       /\ pc' = "datasets"
                       /\ obs' = seen
                       /\ UNCHANGED <<trackerFile, successCsv, fs, work, faults, cfg, procs, esids,
                                      uploaded_files, groupIdx, data, stats,
                                      result, driverVars, payloadVars, exit_status, calls>>

\* lines 1535-1549: the next UploadData of the group is handed to
\* upload_dataset; when none is left, the next group
NextDataset ==
    /\ pc = "datasets"
    /\ IF queue = <<>>
       THEN /\ groupIdx' = groupIdx + 1
            /\ pc' = "group"
            /\ obs' = [obs EXCEPT !.inv = NoObsInv]
            /\ UNCHANGED <<queue, data, calls, result, work>>
       ELSE /\ work < MaxWork
            /\ work' = work + 1
            /\ data' = Head(queue)
            /\ queue' = Tail(queue)
            /\ calls' = <<>>
            /\ result' = NoResult
            /\ obs' = [obs EXCEPT !.invoked = @ \cup {Head(queue).zip_file},
                                  !.handed = Append(@, Head(queue).zip_file),
                                  !.inv = [NoObsInv EXCEPT
                                             !.path = Head(queue).zip_file,
                                             !.succLen = Len(successCsv),
                                             !.failLen = Len(failureCsv),
                                             !.trackLen = Len(trackerFile)]]
            /\ pc' = "build"
            /\ UNCHANGED groupIdx
    /\ DriverReset
    /\ UNCHANGED <<trackerFile, successCsv, failureCsv, fs, faults, cfg, procs, esids,
                   uploaded_files, stats, exit_status>>

ApiDone == IF calls # <<>> THEN obs.apiDone \cup {data.zip_file} ELSE obs.apiDone

\* a loop body that marks the archive whatever the result says
RouteSuccess_Any ==
    /\ pc = "route"
    /\ stats' = [stats EXCEPT !.total_processed = @ + 1, !.successful = @ + 1]
    /\ uploaded_files' = mark_uploaded_set(uploaded_files, data.zip_file)
    /\ trackerFile' = mark_uploaded_file(trackerFile, data.zip_file)
    /\ obs' = [obs EXCEPT !.apiDone = ApiDone]
    /\ pc' = "save_success"
    /\ UNCHANGED <<successCsv, failureCsv, fs, work, faults, cfg, procs, esids, groupIdx, queue,
                   data, result, driverVars, payloadVars, exit_status, calls>>

\* lines 1551-1555: a successful result is counted and the archive marked
RouteSuccess ==
    /\ pc = "route"
    /\ result.successful
    /\ stats' = [stats EXCEPT !.total_processed = @ + 1, !.successful = @ + 1]
    /\ uploaded_files' = mark_uploaded_set(uploaded_files, data.zip_file)
    /\ trackerFile' = mark_uploaded_file(trackerFile, data.zip_file)
    /\ obs' = [obs EXCEPT !.apiDone = ApiDone]
    /\ pc' = "save_success"
    /\ UNCHANGED <<successCsv, failureCsv, fs, work, faults, cfg, procs, esids, groupIdx, queue,
                   data, result, driverVars, payloadVars, exit_status, calls>>

\* a success whose row is left unwritten when the loop goes on
SaveSuccess_Skip ==
    /\ pc = "save_success"
    /\ pc' = "datasets"
    /\ UNCHANGED <<persistVars, runVars, result, driverVars, payloadVars, calls, obs>>

\* lines 1556-1563: the success row
SaveSuccess ==
    /\ pc = "save_success"
    /\ save_result_csv(results_file(TRUE),
           save_result_row(data.esid, TRUE, result.api_response, NoErr))
    /\ pc' = "datasets"
    /\ UNCHANGED <<trackerFile, fs, work, faults, cfg, procs, esids, runVars, result,
                   driverVars, payloadVars, calls, obs>>

\* lines 1564-1575: a failure is counted and its row written
RouteFailure ==
    /\ pc = "route"
    /\ ~result.successful
    /\ stats' = [stats EXCEPT !.total_processed = @ + 1, !.failed = @ + 1]
    /\ save_result_csv(results_file(FALSE),
           save_result_row(data.esid, FALSE, NoResp, result.error))
    /\ obs' = [obs EXCEPT !.apiDone = ApiDone]
    /\ pc' = "datasets"
    /\ UNCHANGED <<trackerFile, fs, work, faults, cfg, procs, esids, uploaded_files,
                   groupIdx, queue, data, result, driverVars, payloadVars, exit_status,
                   calls>>

\* the process is killed (power loss, SIGKILL) at any point
Crash ==
    /\ pc # "idle"
    /\ EndRun("killed")
    /\ uploaded_files' = {}
    /\ groupIdx' = 0
    /\ stats' = ZeroStats
    /\ calls' = <<>>
    /\ obs' = NoObs
    /\ UNCHANGED persistVars

Init ==
    /\ trackerFile = <<>>
    /\ successCsv = <<>>
    /\ failureCsv = <<>>
    /\ fs \in Worlds
    /\ work = 0
    /\ pc = "idle"
    /\ cfg \in PipelineCfgs
    /\ faults = PipelineFaults
    /\ uploaded_files = {}
    /\ groupIdx = 0
    /\ queue = <<>>
    /\ data = NoData
    /\ stats = ZeroStats
    /\ result = NoResult
    /\ record_id = 0
    /\ fileIdx = 0
    /\ entries = NoEntries
    /\ file_entry = NoEntry
    /\ draft_response = NoResp
    /\ review_response = NoResp
    /\ exc = NoExc
    /\ data_collector = NoCollector
    /\ config = NoConfig
    /\ metadata_json = NoJson
    /\ draft_metadata = NoJson
    /\ procs = NoProcs
    /\ esids = NoEsids
    /\ exit_status = "none"
    /\ calls = <<>>
    /\ obs = NoObs

Next ==
    \/ StartRun
    \/ ProcessGroup
    \/ NextDataset
    \/ BuildConfig
    \/ StartUpload
    \/ CreateDraft
    \/ UploadFileInit
    \/ UploadFilePut
    \/ UploadFileCommit
    \/ ReviewCreate
    \/ ReviewSubmit
    \/ Publish
    \/ HandleFailure
    \/ RouteSuccess
    \/ SaveSuccess
    \/ RouteFailure
    \/ Crash

Spec == Init /\ [][Next]_vars

\* ------------------------------------------------------------------------
\*  One call of upload_dataset and the routing of its result, with every
\*  failure the environment has
\* ------------------------------------------------------------------------

\* the UploadData bundles handed to upload_dataset: three files, two files,
\* the archive alone without README.html
DriverData ==
    {MakeUploadData(ArchA, d, find_dataset_files(ArchA, d).found_files) :
        d \in {FsPlain(ArchA), FsManifest(ArchA), FsBare(ArchA),
               FsNoCollector(ArchA)}}

InitDriver ==
    /\ trackerFile = <<>>
    /\ successCsv = <<>>
    /\ failureCsv = <<>>
    /\ fs \in {World(FsPlain(ArchA), FsPlain(ArchB), FsPlain(ArchC))}
    /\ work = 0
    /\ faults = AllFaults
    /\ cfg \in {c \in Cfgs : c.datasets = <<1, 2>>}
    /\ pc = "build"
    /\ uploaded_files = {}
    /\ groupIdx = 0
    /\ queue = <<>>
    /\ data \in DriverData
    /\ stats = ZeroStats
    /\ result = NoResult
    /\ record_id = 0
    /\ fileIdx = 0
    /\ entries = NoEntries
    /\ file_entry = NoEntry
    /\ draft_response = NoResp
    /\ review_response = NoResp
    /\ exc = NoExc
    /\ data_collector = NoCollector
    /\ config = NoConfig
    /\ metadata_json = NoJson
    /\ draft_metadata = NoJson
    /\ procs = NoProcs
    /\ esids = NoEsids
    /\ exit_status = "running"
    /\ calls = <<>>
    /\ obs = [NoObs EXCEPT !.inv.path = data.zip_file,
                           !.invoked = {data.zip_file},
                           !.handed = <<data.zip_file>>]

NextDriver ==
    \/ BuildConfig
    \/ StartUpload
    \/ CreateDraft
    \/ UploadFileInit
    \/ UploadFilePut
    \/ UploadFileCommit
    \/ ReviewCreate
    \/ ReviewSubmit
    \/ Publish
    \/ HandleFailure
    \/ RouteSuccess
    \/ SaveSuccess
    \/ RouteFailure

SpecDriver == InitDriver /\ [][NextDriver]_vars

\* ------------------------------------------------------------------------
\*  Two pipeline processes started on the same tracker file, each running
\*  upload_datasets once
\* ------------------------------------------------------------------------

\* what the two processes leave alone
twoVars == <<fs, work, faults, pc, cfg, esids, uploaded_files, groupIdx, queue, data,
             stats, result, driverVars, payloadVars, exit_status, calls, obs>>

\* a tracker that reads the backing file again at every membership test
TrackerSet_Reload(p) ==
    procs[p].uploaded_files \cup UploadTracker_load(trackerFile)

\* UploadTracker.is_uploaded: the set the membership test looks at is the
\* one in the memory of the process
TrackerSet(p) == procs[p].uploaded_files

\* lines 1501-1504: the process builds its tracker, which loads the file
ProcStart(p) ==
    /\ procs[p].pc = "off"
    /\ procs' = [procs EXCEPT
                   ![p].pc = "group",
                   ![p].uploaded_files = UploadTracker_load(trackerFile),
                   ![p].loaded = UploadTracker_load(trackerFile),
                   ![p].groupIdx = 1]
    /\ UNCHANGED <<trackerFile, successCsv, failureCsv, twoVars>>

\* lines 1507-1533: get_upload_data for the next group, or the end of the
\* process past the last group
ProcGroup(p) ==
    /\ procs[p].pc = "group"
    /\ IF procs[p].groupIdx > Len(cfg.datasets)
       THEN /\ procs' = [procs EXCEPT ![p].pc = "done"]
            /\ UNCHANGED failureCsv
       ELSE \E order \in Perms({a \in Archives :
                                    a.group = cfg.datasets[procs[p].groupIdx]}) :
              LET r == get_upload_data(order, TrackerSet(p), fs)
              IN  IF r.raised # ""
                  THEN /\ procs' = [procs EXCEPT ![p].pc = "done",
                                                 ![p].raised = TRUE]
                       /\ UNCHANGED failureCsv
                  ELSE /\ failureCsv' = failureCsv \o UnmatchedRows(r.unmatched_ids)
                       /\ procs' = [procs EXCEPT ![p].pc = "datasets",
                                                 ![p].queue = r.upload_data]
    /\ UNCHANGED <<trackerFile, successCsv, twoVars>>

\* lines 1535-1549: the next UploadData of the group, or the next group
ProcNext(p) ==
    /\ procs[p].pc = "datasets"
    /\ IF procs[p].queue = <<>>
       THEN procs' = [procs EXCEPT ![p].pc = "group",
                                   ![p].groupIdx = @ + 1]
       ELSE procs' = [procs EXCEPT
                        ![p].pc = "upload",
                        ![p].data = Head(procs[p].queue),
                        ![p].queue = Tail(@),
                        ![p].handed = Append(@, Head(procs[p].queue).zip_file)]
    /\ UNCHANGED <<trackerFile, successCsv, failureCsv, twoVars>>

\* line 1541: upload_dataset as a whole; it fails before the draft-creation
\* request, or issues it and then fails or succeeds
ProcUpload(p) ==
    /\ procs[p].pc = "upload"
    /\ \E issued \in BOOLEAN, ok \in BOOLEAN :
         /\ ok => issued
         /\ procs' = [procs EXCEPT
                        ![p].pc = "record",
                        ![p].successful = ok,
                        ![p].created = IF issued
                                       THEN Append(@, procs[p].data.zip_file)
                                       ELSE @]
    /\ UNCHANGED <<trackerFile, successCsv, failureCsv, twoVars>>

\* lines 1551-1575: a success is marked and its row written, a failure's
\* row is written
ProcRecord(p) ==
    /\ procs[p].pc = "record"
    /\ IF procs[p].successful
       THEN /\ trackerFile' = mark_uploaded_file(trackerFile,
                                                 procs[p].data.zip_file)
            /\ procs' = [procs EXCEPT
                           ![p].pc = "datasets",
                           ![p].uploaded_files =
                               mark_uploaded_set(@, procs[p].data.zip_file)]
            /\ save_result_csv(results_file(TRUE),
                   save_result_row(procs[p].data.esid, TRUE,
                                   [kind |-> "draft", id |-> 42, empty |-> FALSE],
                                   NoErr))
       ELSE /\ procs' = [procs EXCEPT ![p].pc = "datasets"]
            /\ save_result_csv(results_file(FALSE),
                   save_result_row(procs[p].data.esid, FALSE, NoResp,
                                   [type |-> "HTTPError",
                                    error_message |-> "HTTP error"]))
            /\ UNCHANGED trackerFile
    /\ UNCHANGED twoVars

\* the worlds of the two processes: every archive resolved; one whose
\* manifest names a missing file; two without a collector row
TwoWorlds ==
    {World(FsPlain(ArchA), FsManifest(ArchB), FsPlain(ArchC)),
     World(FsPlain(ArchA), FsBroken(ArchB), FsManifest(ArchC)),
     World(FsBare(ArchA), FsNoCollector(ArchB), FsManifest(ArchC))}

InitTwo ==
    /\ trackerFile = <<>>
    /\ successCsv = <<>>
    /\ failureCsv = <<>>
    /\ fs \in TwoWorlds
    /\ work = 0
    /\ pc = "idle"
    /\ cfg \in {c \in PipelineCfgs : /\ ~c.delete_failures /\ ~c.auto_publish
                                     /\ c.community_id = ""
                                     /\ c.datasets = <<1, 2>>}
    /\ faults = PipelineFaults
    /\ uploaded_files = {}
    /\ groupIdx = 0
    /\ queue = <<>>
    /\ data = NoData
    /\ stats = ZeroStats
    /\ result = NoResult
    /\ record_id = 0
    /\ fileIdx = 0
    /\ entries = NoEntries
    /\ file_entry = NoEntry
    /\ draft_response = NoResp
    /\ review_response = NoResp
    /\ exc = NoExc
    /\ data_collector = NoCollector
    /\ config = NoConfig
    /\ metadata_json = NoJson
    /\ draft_metadata = NoJson
    /\ procs = NoProcs
    /\ esids = NoEsids
    /\ exit_status = "none"
    /\ calls = <<>>
    /\ obs = NoObs

NextTwo ==
    \/ \E p \in Procs : ProcStart(p)
    \/ \E p \in Procs : ProcGroup(p)
    \/ \E p \in Procs : ProcNext(p)
    \/ \E p \in Procs : ProcUpload(p)
    \/ \E p \in Procs : ProcRecord(p)

SpecTwo == InitTwo /\ [][NextTwo]_vars

\* ------------------------------------------------------------------------
\*  get_draft_config, save_metadata_json and the request body of
\*  upload_to_zenodo applied to every collector and configuration
\* ------------------------------------------------------------------------

\* get_draft_config is called with the collector and the configuration
CallGetDraftConfig ==
    /\ pc = "config"
    /\ config' = DraftConfig(data_collector, cfg.community_id,
                             cfg.custom_fields, cfg.reserve_doi)
    /\ pc' = "audit"
    /\ UNCHANGED <<persistVars, runVars, result, driverVars, data_collector,
                   metadata_json, draft_metadata, calls, obs>>

\* save_metadata_json is called with the DraftConfig
CallSaveMetadataJson ==
    /\ pc = "audit"
    /\ metadata_json' = Json(metadata_payload(config))
    /\ pc' = "body"
    /\ UNCHANGED <<persistVars, runVars, result, driverVars, data_collector,
                   config, draft_metadata, calls, obs>>

\* upload_to_zenodo builds the request body from the DraftConfig
CallDraftMetadata ==
    /\ pc = "body"
    /\ draft_metadata' = Json(draft_metadata_body(config))
    /\ pc' = "posted"
    /\ UNCHANGED <<persistVars, runVars, result, driverVars, data_collector,
                   config, metadata_json, calls, obs>>

InitConfig ==
    /\ trackerFile = <<>>
    /\ successCsv = <<>>
    /\ failureCsv = <<>>
    /\ fs \in {World(FsPlain(ArchA), FsPlain(ArchB), FsPlain(ArchC))}
    /\ work = 0
    /\ faults = {}
    /\ cfg \in {c \in Cfgs : /\ c.datasets = <<1, 2>>
                             /\ ~c.delete_failures /\ ~c.auto_publish}
    /\ pc = "config"
    /\ uploaded_files = {}
    /\ groupIdx = 0
    /\ queue = <<>>
    /\ data = NoData
    /\ stats = ZeroStats
    /\ result = NoResult
    /\ record_id = 0
    /\ fileIdx = 0
    /\ entries = NoEntries
    /\ file_entry = NoEntry
    /\ draft_response = NoResp
    /\ review_response = NoResp
    /\ exc = NoExc
    /\ data_collector \in [first_recording_day : {NoDay} \cup Days,
                            last_recording_day : {NoDay} \cup Days]
    /\ config = NoConfig
    /\ metadata_json = NoJson
    /\ draft_metadata = NoJson
    /\ procs = NoProcs
    /\ esids = NoEsids
    /\ exit_status = "none"
    /\ calls = <<>>
    /\ obs = NoObs

NextConfig ==
    \/ CallGetDraftConfig
    \/ CallSaveMetadataJson
    \/ CallDraftMetadata

SpecConfig == InitConfig /\ [][NextConfig]_vars

\* ------------------------------------------------------------------------
\*  The identifiers get_upload_data and find_dataset_files derive from the
\*  name of one discovered archive
\* ------------------------------------------------------------------------

\* the segments of a stem: sequences of chunks, so that strip() is computed
Segments == {<<"ESID">>, <<"005">>, <<"v2">>, <<"005", WS>>}

\* lines 1423-1428: the stems subdir.glob("ESID_*.zip") matches
ArchiveStems ==
    {s \in UNION {[1..n -> Segments] : n \in 2..MaxSegs} : s[1] = <<"ESID">>}

\* get_upload_data, line 1440: get_esid_file_pairs on the discovered archive
PairArchive ==
    /\ pc = "discovered"
    /\ esids' = [esids EXCEPT !.pair = pair_esid(esids.segs)]
    /\ pc' = "paired"
    /\ UNCHANGED <<trackerFile, successCsv, failureCsv, fs, work, faults, cfg,
                   procs, runVars, result, driverVars, payloadVars, calls, obs>>

\* find_dataset_files, lines 630-641: the identifier of the manifest name
LocateManifest ==
    /\ pc = "paired"
    /\ esids' = [esids EXCEPT !.manifest = manifest_esid(esids.segs)]
    /\ pc' = "located"
    /\ UNCHANGED <<trackerFile, successCsv, failureCsv, fs, work, faults, cfg,
                   procs, runVars, result, driverVars, payloadVars, calls, obs>>

InitEsid ==
    /\ trackerFile = <<>>
    /\ successCsv = <<>>
    /\ failureCsv = <<>>
    /\ fs \in {World(FsPlain(ArchA), FsPlain(ArchB), FsPlain(ArchC))}
    /\ work = 0
    /\ faults = {}
    /\ cfg \in {c \in PipelineCfgs : /\ c.datasets = <<1, 2>>
                                     /\ ~c.delete_failures /\ ~c.auto_publish
                                     /\ c.community_id = ""}
    /\ pc = "discovered"
    /\ uploaded_files = {}
    /\ groupIdx = 0
    /\ queue = <<>>
    /\ data = NoData
    /\ stats = ZeroStats
    /\ result = NoResult
    /\ record_id = 0
    /\ fileIdx = 0
    /\ entries = NoEntries
    /\ file_entry = NoEntry
    /\ draft_response = NoResp
    /\ review_response = NoResp
    /\ exc = NoExc
    /\ data_collector = NoCollector
    /\ config = NoConfig
    /\ metadata_json = NoJson
    /\ draft_metadata = NoJson
    /\ procs = NoProcs
    /\ esids \in {[NoEsids EXCEPT !.segs = s] : s \in ArchiveStems}
    /\ exit_status = "none"
    /\ calls = <<>>
    /\ obs = NoObs

NextEsid ==
    \/ PairArchive
    \/ LocateManifest

SpecEsid == InitEsid /\ [][NextEsid]_vars

\* ------------------------------------------------------------------------
\*  Properties
\* ------------------------------------------------------------------------

\* the archives for which a remote call was issued in the current run
ApiPaths ==
    obs.apiDone \cup (IF calls # <<>> /\ data # NoData THEN {data.zip_file}
                     ELSE {})

CallsOf(op) == {i \in 1..Len(calls) : calls[i].op = op}

\* C1: an archive path that is a line of the tracker file when a run starts
\* is not handed to upload_dataset in that run and no remote call is issued
\* for it.
C1_MarkedNeverUploaded ==
    obs.markedAtStart \cap (obs.invoked \cup ApiPaths) = {}

\* C2: every path that mark_uploaded has written to the backing file is
\* uploaded for a tracker freshly loaded from that file (and for the
\* running process's own tracker, if it is the one that marked it).
C2_MarkedStaysMarked ==
    \A i \in 1..Len(trackerFile) :
        is_uploaded(UploadTracker_load(trackerFile), trackerFile[i])

\* C3: in the state a process leaves behind, also when it was killed, every
\* path marked in the tracker file has a row in the success CSV.
C3_MarkedHasSuccessRow ==
    pc = "idle" =>
        \A i \in 1..Len(trackerFile) :
            \E j \in 1..Len(successCsv) :
                successCsv[j].esid = PairEsid(ArchiveAt(trackerFile[i]))

\* the rows and lines added since the current call of upload_dataset began
NewSuccessRows == SubSeq(successCsv, obs.inv.succLen + 1, Len(successCsv))
NewFailureRows == SubSeq(failureCsv, obs.inv.failLen + 1, Len(failureCsv))
NewMarks == SubSeq(trackerFile, obs.inv.trackLen + 1, Len(trackerFile))

\* C4: when the orchestrator is done with one result of upload_dataset, a
\* success has added exactly one row (of that dataset) to the success CSV,
\* none to the failure CSV and one mark of that archive; a failure exactly
\* one row to the failure CSV, none to the success CSV and no mark.
C4_ResultRouting ==
    (pc = "datasets" /\ obs.inv.path # <<>>) =>
        IF result.successful
        THEN /\ Len(NewSuccessRows) = 1
             /\ NewSuccessRows[1].esid = data.esid
             /\ NewFailureRows = <<>>
             /\ NewMarks = <<data.zip_file>>
        ELSE /\ Len(NewFailureRows) = 1
             /\ NewFailureRows[1].esid = data.esid
             /\ NewSuccessRows = <<>>
             /\ NewMarks = <<>>

C4_Witness ==
    /\ pc = "datasets"
    /\ obs.inv.path # <<>>
    /\ ~result.successful
    /\ stats.successful = 1
    /\ stats.failed = 1
    /\ Len(successCsv) = 1
    /\ Len(NewFailureRows) = 1

\* C5: once a protocol step has failed (a call that failed, or a local
\* failure after failAt calls), the only call that follows is the delete
\* of the cleanup: no initialisation, transfer, commit, review or publish.
C5_FirstFailureStops ==
    /\ \A i \in 1..Len(calls) :
         (~calls[i].ok /\ calls[i].op # "delete") =>
            \A j \in (i + 1)..Len(calls) : calls[j].op = "delete"
    /\ obs.inv.failAt >= 0 =>
            \A j \in (obs.inv.failAt + 1)..Len(calls) : calls[j].op = "delete"

\* file 2 of 3 failed at its commit, and the driver has returned
C5_Witness ==
    /\ pc = "route"
    /\ Len(all_files(data)) = 3
    /\ \E i \in CallsOf("commit") :
         /\ ~calls[i].ok
         /\ calls[i].file = all_files(data)[2]
    /\ \A i \in 1..Len(calls) : calls[i].file # all_files(data)[3]
    /\ CallsOf("delete") # {}

DraftIdObtained ==
    \E i \in CallsOf("create") : calls[i].ok /\ calls[i].id # 0

\* C6: when upload_to_zenodo has returned, it has issued exactly one delete
\* call, for the draft id it got, if it failed after a draft id was obtained
\* and delete_on_failure is set; and no delete call otherwise.
C6_DeleteAccounting ==
    pc = "route" =>
        IF ~result.successful /\ DraftIdObtained /\ cfg.delete_failures
        THEN /\ Cardinality(CallsOf("delete")) = 1
             /\ \A i \in CallsOf("delete") :
                  \E c \in CallsOf("create") : calls[i].id = calls[c].id
        ELSE CallsOf("delete") = {}

C6_Witness ==
    /\ pc = "route"
    /\ ~result.successful
    /\ DraftIdObtained
    /\ cfg.delete_failures
    /\ Cardinality(CallsOf("delete")) = 1

HasKey(es, name) == \E i \in 1..Len(es) : es[i].key = name

\* C7: every content PUT and every commit goes to the links of the entry
\* whose key is the uploaded file's name; when the initialisation response
\* has no entry with that key, no PUT and no commit are sent for the file
\* and the upload fails.
C7_SlotMatching ==
    /\ \A i \in CallsOf("put") : calls[i].target = Entry(calls[i].file).links.content
    /\ \A i \in CallsOf("commit") : calls[i].target = Entry(calls[i].file).links.commit
    /\ (fileIdx > 0 /\ entries # NoEntries
            /\ ~HasKey(entries, all_files(data)[fileIdx])) =>
          /\ pc \in {"except", "route", "datasets"}
          /\ pc \in {"route", "datasets"} => ~result.successful
          /\ \A i \in CallsOf("put") \cup CallsOf("commit") :
               calls[i].file # all_files(data)[fileIdx]

\* the response listed an unrelated entry first, and the PUT was sent
C7_Witness ==
    /\ pc = "commit"
    /\ Len(entries) = 2
    /\ entries[1].key = UNRELATED
    /\ \E i \in CallsOf("put") :
         /\ calls[i].file = all_files(data)[fileIdx]
         /\ calls[i].target = entries[2].links.content

\* C8: for an archive the run has found whose manifest names a file that is
\* not in the directory, find_dataset_files raises FileNotFoundError, and
\* the archive is not handed to upload_dataset and no remote call is issued
\* for it.
C8_ManifestStrict ==
    \A a \in Archives :
        a.path \in obs.missing =>
            /\ find_dataset_files(a, fs[a]).raised = "FileNotFoundError"
            /\ a.path \notin obs.invoked \cup ApiPaths

C8_Witness ==
    /\ pc = "idle"
    /\ exit_status = "1"
    /\ obs.missing # {}
    /\ obs.invoked # {}

\* an archive the run has to upload: in a configured directory, not marked
\* when the run began, with a collector record, and resolving without error
Eligible(a) ==
    /\ a.group \in Range(cfg.datasets)
    /\ ~is_uploaded({Strip(l) : l \in obs.markedAtStart}, a.path)
    /\ fs[a].collector
    /\ find_dataset_files(a, fs[a]).raised = ""

\* C9: when a run in which a manifest named a missing file has ended (not
\* killed), every other eligible archive was handed to upload_dataset.
C9_RunContinues ==
    (pc = "idle" /\ exit_status \in {"0", "1"} /\ obs.missing # {}) =>
        \A a \in Archives : Eligible(a) => a.path \in obs.invoked

FilesCommitted(i) ==
    \A k \in 1..Len(all_files(data)) :
        \E j \in 1..(i - 1) : /\ calls[j].op = "commit"
                              /\ calls[j].ok
                              /\ calls[j].file = all_files(data)[k]

\* C11: review calls are issued only with a non-empty community id, and a
\* successful upload with a community id has issued them; they are one
\* create-review-request and then one submit-review, both after the commit
\* of every file and before any publish call.
C11_ReviewCalls ==
    /\ cfg.community_id = "" =>
          CallsOf("review_create") \cup CallsOf("review_submit") = {}
    /\ Cardinality(CallsOf("review_create")) <= 1
    /\ Cardinality(CallsOf("review_submit")) <= 1
    /\ \A i \in CallsOf("review_create") :
          /\ FilesCommitted(i)
          /\ \A j \in 1..i : calls[j].op # "publish"
    /\ \A i \in CallsOf("review_submit") :
          /\ i > 1
          /\ calls[i - 1].op = "review_create"
          /\ calls[i - 1].ok
    /\ \A i \in CallsOf("publish") :
          cfg.community_id # "" =>
             \E j \in 1..(i - 1) : calls[j].op = "review_submit" /\ calls[j].ok
    /\ (pc = "route" /\ result.successful /\ cfg.community_id # "") =>
          /\ Cardinality(CallsOf("review_create")) = 1
          /\ Cardinality(CallsOf("review_submit")) = 1

\* three files committed, the review created and submitted, then published
C11_Witness ==
    /\ pc = "route"
    /\ result.successful
    /\ cfg.community_id # ""
    /\ cfg.auto_publish
    /\ Len(all_files(data)) = 3
    /\ CallsOf("review_create") # {}
    /\ CallsOf("review_submit") # {}
    /\ CallsOf("publish") # {}

\* C12: a successful upload_to_zenodo reports the publish response when
\* auto_publish is set, else the review-submission response when a community
\* is configured, else the draft-creation response.
C12_ReportedResponse ==
    (pc = "route" /\ result.successful) =>
        result.api_response.kind =
            IF cfg.auto_publish THEN "publish"
            ELSE IF cfg.community_id # "" THEN "review" ELSE "draft"

\* the UploadData bundles the run holds: the one being uploaded and the
\* ones of the group still to upload
Bundles == (IF data # NoData THEN {data} ELSE {}) \cup Range(queue)

Occurrences(s, x) == Cardinality({i \in 1..Len(s) : s[i] = x})

\* C13: in the upload order of every bundle the archive is the last entry
\* and occurs exactly once, also when the manifest names the archive.
C13_ArchiveLast ==
    \A d \in Bundles :
        LET files == all_files(d)
        IN  /\ files[Len(files)] = d.zip_name
            /\ Occurrences(files, d.zip_name) = 1

\* a bundle resolved through a manifest that names the archive first is
\* being uploaded, two metadata files before the archive
C13_Witness ==
    /\ pc = "init"
    /\ fs[ArchiveAt(data.zip_file)].hasManifest
    /\ Head(fs[ArchiveAt(data.zip_file)].manifest) = data.zip_name
    /\ Len(all_files(data)) = 3

\* C14: README.html and README.md are never among additional_files,
\* README.html is never in the upload order and README.md at most once,
\* whether the bundle was resolved by manifest or by the default list.
C14_ReadmeNotAdditional ==
    \A d \in Bundles :
        /\ README_HTML \notin Range(d.additional_files)
        /\ README_MD \notin Range(d.additional_files)
        /\ README_HTML \notin Range(all_files(d))
        /\ Occurrences(all_files(d), README_MD) <= 1

\* bundles of both kinds are queued: one from the default list, which names
\* both README files, and one from a manifest that names README.md
C14_Witness ==
    /\ pc = "datasets"
    /\ \E d \in Range(queue) :
         /\ ~fs[ArchiveAt(d.zip_file)].hasManifest
         /\ d.readme_md
         /\ d.additional_files = <<DATA_DICT>>
    /\ \E d \in Range(queue) :
         /\ fs[ArchiveAt(d.zip_file)].hasManifest
         /\ d.readme_md
         /\ d.additional_files = <<DATA_DICT>>

\* the files of the default list and the README companion that exist
ExistingDefaults(dir) ==
    ((Range(DefaultRequiredFiles) \ {README_HTML}) \cup {README_MD})
        \cap dir.present

\* C15: for a directory without manifest, find_dataset_files does not
\* raise whichever default files are missing and returns every default name
\* with the missing ones marked absent; the bundle built from it uploads
\* exactly the files that exist, and the archive is handed to
\* upload_dataset (it is queued or already handed over).
C15_DefaultListLenient ==
    /\ \A a \in Archives :
          (~fs[a].hasManifest /\ a.name \in fs[a].present) =>
             LET r == find_dataset_files(a, fs[a])
             IN  /\ r.raised = ""
                 /\ {e.name : e \in Range(r.found_files)}
                        = Range(DefaultRequiredFiles)
                 /\ \A e \in Range(r.found_files) :
                       e.found <=> e.name \in fs[a].present
    /\ \A d \in Bundles :
          ~fs[ArchiveAt(d.zip_file)].hasManifest =>
             Range(all_files(d)) =
                 ExistingDefaults(fs[ArchiveAt(d.zip_file)]) \cup {d.zip_name}
    /\ pc \notin {"idle", "group"} =>
          \A a \in Archives :
             (/\ a.group = cfg.datasets[groupIdx]
              /\ ~fs[a].hasManifest
              /\ fs[a].collector
              /\ ~is_uploaded(uploaded_files, a.path)) =>
                 a.path \in obs.invoked
                               \cup {d.zip_file : d \in Range(queue)}

\* the data dictionary of the default list is missing, and the bundle is
\* being uploaded with README.md and the archive
C15_Witness ==
    /\ pc = "put"
    /\ ~fs[ArchiveAt(data.zip_file)].hasManifest
    /\ DATA_DICT \notin fs[ArchiveAt(data.zip_file)].present
    /\ all_files(data) = <<README_MD, data.zip_name>>
    /\ fileIdx = 2

\* the error kind the specification gives an exception class
Classified(cls) ==
    IF cls = "HTTPError" THEN "HTTPError"
    ELSE IF cls \in {"ConnectionError", "Timeout"} THEN "RequestException"
         ELSE cls

\* C16: the error kind of a failed upload_to_zenodo is HTTPError for an HTTP
\* error status, RequestException for another exception of the HTTP
\* library, else the exception's type name; and the failure row carries
\* that kind.
C16_ErrorKind ==
    /\ (pc \in {"route", "datasets"} /\ exc # NoExc) =>
           result.error.type = Classified(exc.cls)
    /\ (pc = "datasets" /\ ~result.successful /\ obs.inv.path # <<>>) =>
           /\ failureCsv # <<>>
           /\ failureCsv[Len(failureCsv)].error_type = result.error.type

\* a connection error was classified and its row written
C16_Witness ==
    /\ pc = "datasets"
    /\ exc.cls = "ConnectionError"
    /\ failureCsv # <<>>
    /\ failureCsv[Len(failureCsv)].error_type = "RequestException"

\* C17: the result of a failed upload_to_zenodo is the Failure of the step
\* that failed, with its kind and message and no response, whether the
\* delete call of the cleanup succeeded, failed or was not made.
C17_CleanupKeepsOutcome ==
    (pc = "route" /\ exc # NoExc) =>
        /\ ~result.successful
        /\ result.api_response = NoResp
        /\ result.error = [type |-> Classified(exc.cls),
                           error_message |-> ErrorMsg(exc)]

\* the file initialisation found no entry, and the delete of the draft
\* failed as well
C17_Witness ==
    /\ pc = "route"
    /\ exc.cls = "ValueError"
    /\ \E i \in CallsOf("delete") : ~calls[i].ok
    /\ result.error.type = "ValueError"

\* C18: an audit file that could not be written raises nothing: no step
\* fails with its error, the protocol goes on after it, and a failure
\* returned afterwards is the failure of a step of the upload.
C18_AuditNeverEscalates ==
    /\ (obs.inv.metaAudit = "failed" \/ obs.inv.logAudit = "failed") =>
          /\ exc.cls # "OSError"
          /\ result.error.type # "OSError"
          /\ (pc = "route" /\ ~result.successful) =>
                \/ obs.inv.failAt >= 0
                \/ result.error.type = "ValueError" /\ calls = <<>>
    /\ obs.inv.metaAudit = "failed" => pc # "build"
    /\ obs.inv.logAudit = "failed" =>
          /\ record_id # 0
          /\ pc \notin {"build", "start", "create"}

\* neither audit file could be written and the upload succeeded
C18_Witness ==
    /\ pc = "route"
    /\ result.successful
    /\ obs.inv.metaAudit = "failed"
    /\ obs.inv.logAudit = "failed"
    /\ CallsOf("commit") # {}

\* the result rows the current run has written for archive a
RunRows(a) ==
    Cardinality({i \in (obs.runSuccLen + 1)..Len(successCsv) :
                    successCsv[i].esid = PairEsid(a)})
    + Cardinality({i \in (obs.runFailLen + 1)..Len(failureCsv) :
                      failureCsv[i].esid = PairEsid(a)})

\* C19: when a run has ended (not killed), every archive it had to upload
\* was handed to upload_dataset exactly once and has exactly one result
\* row of this run, whatever the outcomes of the other datasets.
C19_EveryEligibleProcessed ==
    (pc = "idle" /\ exit_status \in {"0", "1"}) =>
        \A a \in Archives :
            Eligible(a) => /\ Occurrences(obs.handed, a.path) = 1
                           /\ RunRows(a) = 1

\* C20: in one run no archive is handed to upload_dataset twice.
C20_AtMostOncePerRun ==
    \A a \in Archives : Occurrences(obs.handed, a.path) <= 1

\* the positions of upload_dataset: from the metadata build to its return
DriverPcs ==
    {"build", "start", "create", "init", "put", "commit", "review_create",
     "review_submit", "publish", "except", "route"}

\* the rows save_result has written in the current run (the rows of
\* get_upload_data for unmatched identifiers carry no error type)
ResultRowsOfRun ==
    (Len(successCsv) - obs.runSuccLen)
    + Cardinality({i \in (obs.runFailLen + 1)..Len(failureCsv) :
                      failureCsv[i].error_type # "None"})

\* C21: while dataset k+1 is in upload_dataset (metadata build, remote
\* calls), the result rows of all k datasets handed over before it are
\* written and counted, every success among them is marked, and the calls
\* in progress are calls for files of dataset k+1 only.
C21_OneAtATime ==
    pc \in DriverPcs =>
        /\ ResultRowsOfRun = Len(obs.handed) - 1
        /\ stats.total_processed = Len(obs.handed) - 1
        /\ \A i \in (obs.runSuccLen + 1)..Len(successCsv) :
              \E j \in 1..Len(trackerFile) :
                 PairEsid(ArchiveAt(trackerFile[j])) = successCsv[i].esid
        /\ \A i \in 1..Len(calls) :
              calls[i].file \in Range(all_files(data)) \cup {""}

\* the second dataset of a run is at its draft creation after the first
\* one succeeded
C21_Witness ==
    /\ pc = "create"
    /\ Len(obs.handed) = 2
    /\ Len(successCsv) - obs.runSuccLen = 1
    /\ stats.successful = 1

\* C22: when main has exited after upload_datasets (not killed), the exit
\* status is 0 exactly when the run appended no row to the failure CSV.
C22_ExitStatus ==
    (pc = "idle" /\ exit_status \in {"0", "1"}) =>
        (exit_status = "0" <=> Len(failureCsv) = obs.runFailLen)


\* the archives of the configured groups that a process takes for new: the
\* tracker lines it loaded do not name them
NewFor(p) ==
    {a.path : a \in {b \in Archives : /\ b.group \in Range(cfg.datasets)
                                       /\ fs[b].collector
                                       /\ b.path \notin procs[p].loaded}}

\* C23: two processes on the same tracker file are not protected from each
\* other: a process never sees what the other marks after it loaded the
\* file (its in-memory set is what it loaded plus its own marks, and it
\* hands every archive that was new when it loaded to upload_dataset), so
\* both can issue the draft-creation request for the same archive.
C23_NoProtection ==
    \A p \in Procs :
        /\ procs[p].uploaded_files \subseteq
               procs[p].loaded \cup Range(procs[p].handed)
        /\ (procs[p].pc = "done" /\ ~procs[p].raised)
               => NewFor(p) \subseteq Range(procs[p].handed)

\* both processes loaded the tracker before the other marked the archive,
\* both issued the draft-creation request for it and both marked it
C23_Witness ==
    /\ ArchA.path \notin procs[1].loaded \cup procs[2].loaded
    /\ ArchA.path \in Range(procs[1].created) \cap Range(procs[2].created)
    /\ Cardinality({i \in 1..Len(trackerFile) :
                       trackerFile[i] = ArchA.path}) = 2


\* C24: when a draft was created and a later step failed, the row appended
\* to the failure-results CSV records the id of that draft.
C24_FailureRowHasDraftId ==
    (pc = "datasets" /\ ~result.successful /\ record_id # 0
        /\ Len(failureCsv) > obs.inv.failLen)
        => failureCsv[Len(failureCsv)].id = record_id


\* C25: the body of the draft-creation request contains a pids entry when
\* reserve_doi is true and none when it is false.
C25_PidsInBody ==
    draft_metadata.written
        => (cfg.reserve_doi <=> "pids" \in DOMAIN draft_metadata.payload)

\* the keys of a JSON document other than the two provenance headers
Mirrored(doc) ==
    [k \in DOMAIN doc \ {"_azus_note", "_generated_at"} |-> doc[k]]

\* C26: apart from _azus_note and _generated_at, the metadata audit JSON is
\* the body of the draft-creation request, for every DraftConfig.
C26_AuditMirrorsBody ==
    (metadata_json.written /\ draft_metadata.written)
        => Mirrored(metadata_json.payload) = draft_metadata.payload


\* the date entries of a DraftConfig's metadata; none when the field is absent
DatesOf(c) ==
    IF "dates" \in DOMAIN c.metadata THEN c.metadata["dates"] ELSE <<>>

\* C27: the date entries get_draft_config builds: both days known and
\* different give one interval entry first/last, both known and equal give
\* one single-day entry, exactly one known (the first or the last) gives one
\* entry for that day, none known gives no dates field.
C27_DateEntries ==
    config.built =>
        LET first == data_collector.first_recording_day
            last == data_collector.last_recording_day
        IN  /\ (first # NoDay /\ last # NoDay /\ first # last)
                  => DatesOf(config) = <<Date(<<first, last>>, "Recording period")>>
            /\ (first # NoDay /\ last # NoDay /\ first = last)
                  => DatesOf(config) = <<Date(<<first>>, "Day of recording")>>
            /\ (first # NoDay /\ last = NoDay)
                  => DatesOf(config) = <<Date(<<first>>, "Day of recording")>>
            /\ (first = NoDay /\ last # NoDay)
                  => DatesOf(config) = <<Date(<<last>>, "Day of recording")>>
            /\ (first = NoDay /\ last = NoDay)
                  => "dates" \notin DOMAIN config.metadata


\* C28: after any sequence of sequential runs on the same tracker file,
\* crashed and restarted at any point, no archive path is on two lines of
\* the file.
C28_TrackerNoDuplicates ==
    \A i, j \in 1..Len(trackerFile) :
        i < j => trackerFile[i] # trackerFile[j]


\* the create-record response of the current dataset carried no draft id
NoIdReturned == draft_response.kind = "draft" /\ draft_response.id = 0

\* C29: when the create-record response contains no draft identifier the
\* dataset fails with error kind NoDraftId, no file, review, publish or
\* delete call is issued and no request log is written.
C29_NoDraftId ==
    (NoIdReturned /\ pc \in {"route", "datasets"}) =>
        /\ ~result.successful
        /\ result.error.type = "NoDraftId"
        /\ \A i \in 1..Len(calls) : calls[i].op = "create"
        /\ obs.inv.logAudit = "none"


\* the run is about to return its statistics
Returning == pc = "group" /\ groupIdx > Len(cfg.datasets)

\* the failure rows upload_datasets wrote for Failure outcomes in this run
FailureRowsOfRun ==
    {i \in (obs.runFailLen + 1)..Len(failureCsv) :
        failureCsv[i].error_type # "None"}

\* the discovered archives the tracker filtered out, when every configured
\* directory is configured once
SkippedArchives ==
    {a \in Archives : /\ a.group \in Range(cfg.datasets)
                      /\ is_uploaded(uploaded_files, a.path)
                      /\ a.path \notin Range(obs.handed)}

\* C30: the statistics returned by upload_datasets are accurate counts:
\* total_processed is the number of upload_dataset invocations and equals
\* successful + failed, successful and failed count the Success and Failure
\* outcomes, and skipped counts the discovered archives the tracker held back.
C30_StatsAccurate ==
    Returning =>
        /\ stats.total_processed = Len(obs.handed)
        /\ stats.total_processed = stats.successful + stats.failed
        /\ stats.successful = Len(successCsv) - obs.runSuccLen
        /\ stats.failed = Cardinality(FailureRowsOfRun)
        /\ cfg.datasets = <<1, 2>>
              => stats.skipped = Cardinality(SkippedArchives)


FileOps == {"init", "put", "commit"}

\* the number of file initialisations among the first i calls: the position
\* in the upload list of the file that call i works on
InitsUpTo(i) == Cardinality({j \in 1..i : calls[j].op = "init"})

\* C31: for each file the calls are initialize-slot, content PUT, commit,
\* each issued only after the previous one succeeded; the files are handled
\* in the order of the upload list, the initialisation of the next file
\* follows the successful commit of the one before, and no file call
\* precedes a successful create-record that returned a draft id.
C31_FileProtocolOrder ==
    \A i \in 1..Len(calls) :
        LET c == calls[i]
            k == InitsUpTo(i)
        IN  c.op \in FileOps =>
              /\ calls[1].op = "create" /\ calls[1].ok /\ calls[1].id # 0
              /\ c.id = calls[1].id
              /\ k \in 1..Len(all_files(data))
              /\ c.file = all_files(data)[k]
              /\ c.op = "init" =>
                    IF k = 1 THEN i = 2
                    ELSE /\ calls[i - 1].op = "commit" /\ calls[i - 1].ok
                         /\ calls[i - 1].file = all_files(data)[k - 1]
              /\ c.op = "put" =>
                    /\ calls[i - 1].op = "init" /\ calls[i - 1].ok
                    /\ calls[i - 1].file = c.file
              /\ c.op = "commit" =>
                    /\ calls[i - 1].op = "put" /\ calls[i - 1].ok
                    /\ calls[i - 1].file = c.file

\* three files went through the three calls each
C31_Witness ==
    /\ pc = "route" /\ result.successful
    /\ Len(all_files(data)) = 3
    /\ Cardinality({i \in 1..Len(calls) : calls[i].op \in FileOps}) = 9

\* the number of calls of kind op, for file `file` when it is a file call
Issued(op, file) ==
    Cardinality({i \in 1..Len(calls) : calls[i].op = op /\ calls[i].file = file})

\* C32: no HTTP call is retried: at most one create-record call, one
\* initialize, one content PUT and one commit per file of the upload list,
\* one create-review-request, one submit-review, one publish and one
\* delete-draft call, hence at most 3n + 5 calls for n files.
C32_NoRetry ==
    /\ \A op \in {"create", "review_create", "review_submit", "publish",
                   "delete"} : Issued(op, "") <= 1
    /\ \A op \in FileOps : \A f \in Range(all_files(data)) : Issued(op, f) <= 1
    /\ \A i \in 1..Len(calls) :
          calls[i].op \in FileOps => calls[i].file \in Range(all_files(data))
    /\ Len(calls) <= 3 * Len(all_files(data)) + 5

\* a publish call failed after the review and the draft was deleted: every
\* kind of call was issued, once
C32_Witness ==
    /\ pc = "route" /\ ~result.successful
    /\ Len(all_files(data)) = 3
    /\ Len(calls) = 3 * Len(all_files(data)) + 5


\* call `op` was issued for file `file` on draft `id` and succeeded
Done(op, file, id) ==
    \E i \in 1..Len(calls) :
        /\ calls[i].op = op /\ calls[i].file = file
        /\ calls[i].id = id /\ calls[i].ok

\* the protocol was run to its end on one draft in this invocation
CompleteRun ==
    /\ calls # <<>>
    /\ calls[1].op = "create" /\ calls[1].ok /\ calls[1].id # 0
    /\ \A f \in Range(all_files(data)) :
          \A op \in FileOps : Done(op, f, calls[1].id)
    /\ cfg.community_id # "" => Done("review_submit", "", calls[1].id)
    /\ cfg.auto_publish => Done("publish", "", calls[1].id)
    /\ \A i \in 1..Len(calls) : calls[i].ok /\ calls[i].op # "delete"

\* C33: whenever mark_uploaded(p) is called, in the same invocation a draft
\* was created, every file of p's upload list was initialized, transferred
\* and committed on that draft, the review submission succeeded if a
\* community is configured and publish succeeded if auto_publish is set.
C33_MarkedAfterComplete ==
    pc = "save_success" =>
        /\ trackerFile # <<>>
        /\ trackerFile[Len(trackerFile)] = data.zip_file
        /\ CompleteRun

\* an archive of three files was marked after review and publication
C33_Witness ==
    /\ pc = "save_success"
    /\ cfg.community_id # "" /\ cfg.auto_publish
    /\ Len(all_files(data)) = 3
    /\ Len(trackerFile) = obs.inv.trackLen + 1


\* call `op` for file `file` succeeded before call number i
DoneBefore(op, file, i) ==
    \E j \in 1..(i - 1) :
        calls[j].op = op /\ calls[j].file = file /\ calls[j].ok

\* C34: publish is invoked only when auto_publish is true, only after every
\* file of the dataset was committed and, if a community is configured,
\* after the review submission succeeded; with auto_publish false no
\* publish call is issued and the draft is left unpublished.
C34_PublishOnlyWhenAsked ==
    /\ \A i \in 1..Len(calls) :
          calls[i].op = "publish" =>
            /\ cfg.auto_publish
            /\ \A f \in Range(all_files(data)) : DoneBefore("commit", f, i)
            /\ cfg.community_id # "" => DoneBefore("review_submit", "", i)
    /\ ~cfg.auto_publish =>
          /\ \A i \in 1..Len(calls) : calls[i].op # "publish"
          /\ result.successful => result.api_response.kind # "publish"

\* a publication after the review of a community draft
C34_Witness ==
    /\ pc = "route" /\ result.successful
    /\ cfg.community_id # "" /\ cfg.auto_publish
    /\ calls[Len(calls)].op = "publish" /\ calls[Len(calls)].ok
    /\ result.api_response.kind = "publish"


\* upload_dataset has returned
Returned == pc \in {"route", "save_success", "datasets"} /\ data # NoData

\* C35: upload_dataset lets no exception escape and returns a well-formed
\* result: successful with no error and a non-null api_response, or failed
\* with api_response None and an error that has a type and a message;
\* also when the dates, the configuration, the credentials, a protocol
\* step or the cleanup failed.
C35_WellFormedResult ==
    /\ Returned =>
          IF result.successful
          THEN result.error = NoErr /\ result.api_response # NoResp
          ELSE /\ result.api_response = NoResp
               /\ result.error.type # "None"
               /\ result.error.error_message # ""
    /\ (Returned /\ (exc # NoExc \/ obs.inv.buildRaised)) => ~result.successful
    /\ pc \in DriverPcs \cup {"save_success", "datasets"}

\* a protocol step failed and then the deletion of the draft failed too
C35_Witness ==
    /\ pc = "route" /\ ~result.successful
    /\ exc # NoExc
    /\ calls # <<>>
    /\ calls[Len(calls)].op = "delete" /\ ~calls[Len(calls)].ok


\* C36: for every archive name discovery matches, the identifier
\* find_dataset_files uses for the upload manifest equals the identifier
\* get_esid_file_pairs derives for the collector record and the audit files.
C36_EsidConsistent ==
    pc = "located" => esids.manifest = esids.pair


\* an archive of a configured directory whose identifier has no collector
\* record
Unmatched(a) == a.group \in Range(cfg.datasets) /\ ~fs[a].collector

\* the failure rows of this run for archive a
FailureRowsFor(a) ==
    {i \in (obs.runFailLen + 1)..Len(failureCsv) :
        failureCsv[i].esid = PairEsid(a)}

\* C37: an archive without collector record is never uploaded: no file
\* resolution, no upload_dataset invocation, no remote call, no mark; when
\* the run has ended it has exactly one failure row of this run, and the
\* remaining archives of its group were processed.
C37_UnmatchedNeverUploaded ==
    \A a \in Archives :
        Unmatched(a) =>
          /\ a.path \notin obs.resolved \cup obs.invoked \cup ApiPaths
          /\ a.path \notin Range(trackerFile)
          /\ (pc = "idle" /\ exit_status \in {"0", "1"}) =>
                /\ Cardinality(FailureRowsFor(a)) = 1
                /\ \A b \in Archives :
                      (b.group = a.group /\ fs[b].collector
                         /\ ~is_uploaded({Strip(l) : l \in obs.markedAtStart},
                                         b.path))
                        => b.path \in obs.invoked

====
